---------------------------- MODULE Spec2Model ----------------------------
(***************************************************************************)
(* A model of k2qc, the Kepler/K2 Target Pixel File quality control tool:  *)
(*   k2qc/core.py   QualityIssueLogger, TargetPixelFileValidator,          *)
(*                  KeplerQualityPolice.check_path                         *)
(*   k2qc/flags.py  KEPLER_QUALITY_FLAGS, get_quality_flags_summary,       *)
(*                  plot_quality_flags                                     *)
(*                                                                         *)
(* Python strings are sequences of one-character strings, so that          *)
(* formatting, prefix/suffix matching, sorting and digit parsing are       *)
(* computed rather than assumed.  An exception is the name of its class;   *)
(* "ok" stands for a normal return.                                        *)
(***************************************************************************)
EXTENDS Integers, Sequences, FiniteSets, TLC

(***************************************************************************)
(* Strings                                                                 *)
(***************************************************************************)

\* The characters the model uses, in code point order.
Ascii ==
    <<"\n", " ", "(", ")", ",", "-", ".", "/",
      "0", "1", "2", "3", "4", "5", "6", "7", "8", "9", ":",
      "A", "K", "N", "_",
      "a", "b", "c", "d", "e", "f", "g", "h", "i", "j", "k", "l", "m",
      "n", "o", "p", "q", "r", "s", "t", "u", "v", "w", "x", "y", "z">>

Ord(c) == CHOOSE i \in 1..Len(Ascii) : Ascii[i] = c

DigitChars == <<"0", "1", "2", "3", "4", "5", "6", "7", "8", "9">>

IsDigit(c) == \E i \in 1..Len(DigitChars) : DigitChars[i] = c

DigitValue(c) == (CHOOSE i \in 1..Len(DigitChars) : DigitChars[i] = c) - 1

\* str.startswith
StartsWith(s, prefix) ==
    /\ Len(prefix) <= Len(s)
    /\ SubSeq(s, 1, Len(prefix)) = prefix

\* str.endswith, as fnmatch uses it for a pattern "*<suffix>"
EndsWith(s, suffix) ==
    /\ Len(suffix) <= Len(s)
    /\ SubSeq(s, Len(s) - Len(suffix) + 1, Len(s)) = suffix

\* Python's < on str: by code point, a proper prefix first.
RECURSIVE StrLess(_, _)
StrLess(a, b) ==
    IF b = <<>> THEN FALSE
    ELSE IF a = <<>> THEN TRUE
    ELSE IF Head(a) = Head(b) THEN StrLess(Tail(a), Tail(b))
    ELSE Ord(Head(a)) < Ord(Head(b))

\* sorted(names) for a set of distinct strings
RECURSIVE Sorted(_)
Sorted(S) ==
    IF S = {} THEN <<>>
    ELSE LET least == CHOOSE a \in S : \A b \in S \ {a} : StrLess(a, b)
         IN  <<least>> \o Sorted(S \ {least})

\* str(n) for n >= 0
RECURSIVE IntToStr(_)
IntToStr(n) ==
    IF n < 10 THEN <<DigitChars[n + 1]>>
    ELSE IntToStr(n \div 10) \o <<DigitChars[(n % 10) + 1]>>

\* int(s) for a non-empty string of digits
RECURSIVE StrToInt(_)
StrToInt(s) ==
    IF Len(s) = 1 THEN DigitValue(s[1])
    ELSE 10 * StrToInt(SubSeq(s, 1, Len(s) - 1)) + DigitValue(s[Len(s)])

\* re.findall(r'\d+', s): the maximal runs of digits of s, left to right
RECURSIVE FindAllDigits(_, _, _)
FindAllDigits(s, run, found) ==
    IF s = <<>> THEN (IF run = <<>> THEN found ELSE Append(found, run))
    ELSE IF IsDigit(Head(s)) THEN FindAllDigits(Tail(s), Append(run, Head(s)), found)
    ELSE FindAllDigits(Tail(s), <<>>,
                       IF run = <<>> THEN found ELSE Append(found, run))

\* x & y on non-negative integers
RECURSIVE BitAnd(_, _)
BitAnd(x, y) ==
    IF x = 0 \/ y = 0 THEN 0
    ELSE (x % 2) * (y % 2) + 2 * BitAnd(x \div 2, y \div 2)

\* sum(seq)
RECURSIVE Sum(_)
Sum(s) == IF s = <<>> THEN 0 ELSE Head(s) + Sum(Tail(s))

\* the number of True entries of a mask
Count(mask) == Cardinality({i \in 1..Len(mask) : mask[i]})

Abs(x) == IF x < 0 THEN -x ELSE x

\* The first exception of a sequence of step results, "ok" when none raises.
RECURSIVE FirstRaised(_)
FirstRaised(results) ==
    IF results = <<>> THEN "ok"
    ELSE IF Head(results) # "ok" THEN Head(results)
    ELSE FirstRaised(Tail(results))

(***************************************************************************)
(* TargetPixelFileValidator: the attributes dir(self) sees                 *)
(***************************************************************************)

verify_fits_standard_name ==
    <<"v","e","r","i","f","y","_","f","i","t","s","_","s","t","a","n","d","a","r","d">>
verify_table_shapes_name ==
    <<"v","e","r","i","f","y","_","t","a","b","l","e","_","s","h","a","p","e","s">>
verify_aperture_img_name ==
    <<"v","e","r","i","f","y","_","a","p","e","r","t","u","r","e","_","i","m","g">>
verify_aperture_img_shape_name ==
    <<"v","e","r","i","f","y","_","a","p","e","r","t","u","r","e","_","i","m","g","_","s","h","a","p","e">>
verify_thruster_flags_name ==
    <<"v","e","r","i","f","y","_","t","h","r","u","s","t","e","r","_","f","l","a","g","s">>
verify_quality_flags_name ==
    <<"v","e","r","i","f","y","_","q","u","a","l","i","t","y","_","f","l","a","g","s">>
verify_wcs_keywords_name ==
    <<"v","e","r","i","f","y","_","w","c","s","_","k","e","y","w","o","r","d","s">>
verify_wcs_coordinates_name ==
    <<"v","e","r","i","f","y","_","w","c","s","_","c","o","o","r","d","i","n","a","t","e","s">>
verify_positive_flux_name ==
    <<"v","e","r","i","f","y","_","p","o","s","i","t","i","v","e","_","f","l","u","x">>
verify_cdpp_name ==
    <<"v","e","r","i","f","y","_","c","d","p","p">>
verify_campaign_number_name ==
    <<"v","e","r","i","f","y","_","c","a","m","p","a","i","g","n","_","n","u","m","b","e","r">>

\* The verify methods in the order the class body defines them.
DeclaredVerifyMethods ==
    << verify_fits_standard_name, verify_table_shapes_name,
       verify_aperture_img_name, verify_aperture_img_shape_name,
       verify_thruster_flags_name, verify_quality_flags_name,
       verify_wcs_keywords_name, verify_wcs_coordinates_name,
       verify_positive_flux_name, verify_cdpp_name,
       verify_campaign_number_name >>

\* The other attributes of a validator inside validate(): the instance
\* attributes, the remaining methods and (a sample of) object's own.
OtherAttributes ==
    { <<"l","o","g">>,
      <<"t","p","f">>,
      <<"t","p","f","_","f","i","l","e","n","a","m","e">>,
      <<"v","a","l","i","d","a","t","e">>,
      <<"_","_","i","n","i","t","_","_">>,
      <<"_","_","c","l","a","s","s","_","_">>,
      <<"_","_","d","o","c","_","_">> }

ValidatorAttributes ==
    {DeclaredVerifyMethods[i] : i \in 1..Len(DeclaredVerifyMethods)}
        \cup OtherAttributes

\* Mutant of Dir: the attributes in definition order, as __dict__ holds
\* them, instead of sorted.
DirInDefinitionOrder ==
    DeclaredVerifyMethods \o Sorted(OtherAttributes)

\* dir(self): the attribute names, sorted
Dir == Sorted(ValidatorAttributes)

VerifyPrefix == <<"v","e","r","i","f","y">>

\* [method for method in dir(self) if method.startswith('verify')]
IsVerification(method) == StartsWith(method, VerifyPrefix)

verification_methods == SelectSeq(Dir, IsVerification)

(***************************************************************************)
(* FITS header values and Python's conversions of them                     *)
(***************************************************************************)

\* A header card read through astropy: a number, a string, a card whose
\* value field is blank (astropy's Undefined), or no such card at all.
Num(n) == [kind |-> "num", val |-> n]
Text(s) == [kind |-> "text", val |-> s]
Undefined == [kind |-> "undef", val |-> 0]
Absent == [kind |-> "absent", val |-> 0]

\* header[kw]: KeyError when the header holds no such card
Lookup(h) == IF h.kind = "absent" THEN "KeyError" ELSE "ok"

\* Whether float(s) / int(s) parses the string s (decimal digits here).
IsNumericText(s) == s # <<>> /\ \A i \in 1..Len(s) : IsDigit(s[i])

\* The exception of float(header[kw]) or int(header[kw]), "ok" when none:
\* TypeError for Undefined, ValueError for a string that is no number.
ToNumberRaises(h) ==
    CASE h.kind = "absent" -> "KeyError"
      [] h.kind = "undef"  -> "TypeError"
      [] h.kind = "text"   -> IF IsNumericText(h.val) THEN "ok" ELSE "ValueError"
      [] OTHER             -> "ok"

\* The value of float(header[kw]) or int(header[kw]) when it does not raise
ToNumber(h) == IF h.kind = "text" THEN StrToInt(h.val) ELSE h.val

\* assert cond
AssertThat(cond) == IF cond THEN "ok" ELSE "AssertionError"

(***************************************************************************)
(* An opened Target Pixel File (astropy HDUList), as the checks read it    *)
(*   primary, table, image  headers of extensions 0, 1 and 2               *)
(*   nrows, cell            rows of the binary table and each column's     *)
(*                          cell shape; a column's shape is (nrows,)+cell  *)
(*   QUALITY, FLUX, FLUX_BKG   column data, pixels of a cadence flattened  *)
(*   APERTURE               the aperture image, flattened                  *)
(*   verifyRaises, wcsRaises, wcsCenter   what HDUList.verify and          *)
(*                          astropy.wcs.WCS answer for the file            *)
(*   openRaises             whether fits.open rejects the file             *)
(* Sky coordinates are in units of 0.01 degree.                            *)
(***************************************************************************)

Shape(tpf, column) == <<tpf.nrows>> \o tpf.cell[column]

THRUSTER_FIRING_FLAG == 1048576

CAMPAIGNS_WITHOUT_THRUSTER_FLAGS == {91, 92, 101}

\* 0.1 degree
WcsTolerance == 10

BadColumnChannel == 43

BadColumnLimit == 100

BrightKepmag == 15

BrightCdppLimit == 10000

CDPP_KEYWORDS == <<"CDPP3_0", "CDPP6_0", "CDPP12_0">>

Kepler == <<"K","e","p","l","e","r">>

IsPerfect(quality) == quality = 0

IsThrusterFiring(quality) == BitAnd(quality, THRUSTER_FIRING_FLAG) > 0

IsNegative(v) == v < 0

(***************************************************************************)
(* The verify methods: each returns the exception it raises, or "ok"       *)
(***************************************************************************)

verify_fits_standard(tpf) ==
    \* try: verify(option='exception')  except Exception: assert False
    AssertThat(~tpf.verifyRaises)

verify_table_shapes(tpf) ==
    FirstRaised(<<
        AssertThat(Shape(tpf, "TIME") = Shape(tpf, "TIMECORR")),
        AssertThat(Shape(tpf, "TIME") = Shape(tpf, "CADENCENO")),
        AssertThat(Shape(tpf, "TIME")[1] = Shape(tpf, "FLUX")[1]),
        AssertThat(Shape(tpf, "FLUX") = Shape(tpf, "FLUX_ERR")),
        AssertThat(Shape(tpf, "FLUX") = Shape(tpf, "RAW_CNTS")),
        AssertThat(Shape(tpf, "FLUX") = Shape(tpf, "FLUX_BKG")),
        AssertThat(Shape(tpf, "FLUX") = Shape(tpf, "FLUX_BKG_ERR")) >>)

verify_aperture_img(tpf) == AssertThat(Sum(tpf.APERTURE) > 0)

\* '({},{})'.format(NAXIS1, NAXIS2)
FormatDims(n1, n2) == <<"(">> \o IntToStr(n1) \o <<",">> \o IntToStr(n2) \o <<")">>

verify_aperture_img_shape(tpf) ==
    IF Lookup(tpf.table["TDIM5"]) # "ok" THEN Lookup(tpf.table["TDIM5"])
    ELSE AssertThat(/\ tpf.table["TDIM5"].kind = "text"
                    /\ tpf.table["TDIM5"].val =
                           FormatDims(tpf.image["NAXIS1"].val, tpf.image["NAXIS2"].val))

verify_thruster_flags(tpf) ==
    LET campaign == tpf.primary["CAMPAIGN"]
        thruster_firings == Count([n \in 1..Len(tpf.QUALITY) |-> IsThrusterFiring(tpf.QUALITY[n])])
        campaign_length == tpf.table["TELAPSE"]
    IN  IF /\ campaign.kind # "absent"
           /\ ~(campaign.kind = "num" /\ campaign.val \in CAMPAIGNS_WITHOUT_THRUSTER_FLAGS)
        THEN IF Lookup(campaign_length) # "ok" THEN Lookup(campaign_length)
             ELSE IF campaign_length.kind # "num" THEN "TypeError"
             ELSE AssertThat(thruster_firings > campaign_length.val)
        ELSE "ok"

verify_quality_flags(tpf) == AssertThat(Count([n \in 1..Len(tpf.QUALITY) |-> IsPerfect(tpf.QUALITY[n])]) > 0)

verify_wcs_keywords(tpf) ==
    \* try: WCS(header)  except Exception: assert False
    AssertThat(~tpf.wcsRaises)

verify_wcs_coordinates(tpf) ==
    LET ra == tpf.wcsCenter[1]
        dec == tpf.wcsCenter[2]
        RA_OBJ == tpf.primary["RA_OBJ"]
        DEC_OBJ == tpf.primary["DEC_OBJ"]
    IN  IF tpf.wcsRaises THEN "InvalidTransformError"   \* WCS(...) is not guarded here
        ELSE FirstRaised(<<
                Lookup(RA_OBJ),
                AssertThat(Abs(ra - RA_OBJ.val) < WcsTolerance),     \* degrees
                Lookup(DEC_OBJ),
                AssertThat(Abs(dec - DEC_OBJ.val) < WcsTolerance) >>)

\* ((FLUX + FLUX_BKG < 0).sum(axis=(1, 2))[mask]).sum() for mask = QUALITY == 0
NegativePixels(tpf) ==
    LET flux_plus_bkg ==
            [i \in 1..tpf.nrows |->
                [p \in 1..Len(tpf.FLUX[i]) |-> tpf.FLUX[i][p] + tpf.FLUX_BKG[i][p]]]
    IN  Sum([i \in 1..tpf.nrows |->
                IF tpf.QUALITY[i] = 0 THEN Count([n \in 1..Len(flux_plus_bkg[i]) |-> IsNegative(flux_plus_bkg[i][n])]) ELSE 0])

verify_positive_flux(tpf) ==
    LET CHANNEL == tpf.primary["CHANNEL"]
        CRVAL1P == tpf.image["CRVAL1P"]
    IN  IF Lookup(CHANNEL) # "ok" THEN Lookup(CHANNEL)
        ELSE IF CHANNEL = Num(BadColumnChannel) /\ Lookup(CRVAL1P) # "ok" THEN Lookup(CRVAL1P)
        ELSE IF CHANNEL = Num(BadColumnChannel) /\ CRVAL1P.val < BadColumnLimit THEN "ok"
        \* numpy cannot add arrays of different (non-broadcastable) shapes
        ELSE IF Shape(tpf, "FLUX") # Shape(tpf, "FLUX_BKG") THEN "ValueError"
        ELSE AssertThat(~(NegativePixels(tpf) > 0))

\* The body of verify_cdpp's try block.
CdppTry(tpf) ==
    LET cdpp(i) == tpf.table[CDPP_KEYWORDS[i]]
        KEPMAG == tpf.primary["KEPMAG"]
        Positive(i) ==
            IF ToNumberRaises(cdpp(i)) # "ok" THEN ToNumberRaises(cdpp(i))
            ELSE AssertThat(ToNumber(cdpp(i)) > 0)
        AllPositive == FirstRaised([i \in 1..Len(CDPP_KEYWORDS) |-> Positive(i)])
    IN  IF AllPositive # "ok" THEN AllPositive
        ELSE IF ToNumberRaises(KEPMAG) # "ok" THEN ToNumberRaises(KEPMAG)
        ELSE IF ToNumber(KEPMAG) < BrightKepmag
        THEN FirstRaised([i \in 1..Len(CDPP_KEYWORDS) |->
                             AssertThat(ToNumber(cdpp(i)) < BrightCdppLimit)])
        ELSE "ok"

\* except TypeError: return
CdppCaught == {"TypeError"}

verify_cdpp(tpf) == IF CdppTry(tpf) \in CdppCaught THEN "ok" ELSE CdppTry(tpf)

verify_campaign_number(tpf, tpf_filename) ==
    LET MISSION == tpf.primary["MISSION"]
        CAMPAIGN == tpf.primary["CAMPAIGN"]
        runs == FindAllDigits(tpf_filename, <<>>, <<>>)
    IN  IF Lookup(MISSION) # "ok" THEN Lookup(MISSION)
        ELSE IF ~(MISSION.kind = "text" /\ MISSION.val = Kepler)
        THEN IF ToNumberRaises(CAMPAIGN) # "ok" THEN ToNumberRaises(CAMPAIGN)
             ELSE IF runs = <<>> THEN "IndexError"
             ELSE AssertThat(ToNumber(CAMPAIGN) = StrToInt(runs[Len(runs)]))
        ELSE "ok"

\* getattr(self, verification)()
Invoke(verification, tpf, tpf_filename) ==
    CASE verification = verify_fits_standard_name -> verify_fits_standard(tpf)
      [] verification = verify_table_shapes_name -> verify_table_shapes(tpf)
      [] verification = verify_aperture_img_name -> verify_aperture_img(tpf)
      [] verification = verify_aperture_img_shape_name -> verify_aperture_img_shape(tpf)
      [] verification = verify_thruster_flags_name -> verify_thruster_flags(tpf)
      [] verification = verify_quality_flags_name -> verify_quality_flags(tpf)
      [] verification = verify_wcs_keywords_name -> verify_wcs_keywords(tpf)
      [] verification = verify_wcs_coordinates_name -> verify_wcs_coordinates(tpf)
      [] verification = verify_positive_flux_name -> verify_positive_flux(tpf)
      [] verification = verify_cdpp_name -> verify_cdpp(tpf)
      [] verification = verify_campaign_number_name ->
             verify_campaign_number(tpf, tpf_filename)

\* The lines verify_positive_flux prints before it fails: one per negative
\* pixel of a cadence with QUALITY == 0, as (frame, row, column), 0-based.
BadPixelLines(tpf) ==
    LET ncols == tpf.cell["FLUX"][2]
        Line(i, p) == [kind |-> "badpixel", frame |-> i - 1,
                       row |-> (p - 1) \div ncols, col |-> (p - 1) % ncols]
        IsBad(i, p) == tpf.FLUX[i][p] + tpf.FLUX_BKG[i][p] < 0 /\ tpf.QUALITY[i] = 0
        OfFrame(i) == LET bad == SelectSeq([p \in 1..Len(tpf.FLUX[i]) |-> p],
                                           LAMBDA p : IsBad(i, p))
                      IN  [k \in 1..Len(bad) |-> Line(i, bad[k])]
        RECURSIVE Frames(_)
        Frames(i) == IF i > tpf.nrows THEN <<>> ELSE OfFrame(i) \o Frames(i + 1)
    IN  Frames(1)

\* What a verify method prints.
Printed(verification, tpf) ==
    IF verification = verify_positive_flux_name
          /\ verify_positive_flux(tpf) = "AssertionError"
    THEN BadPixelLines(tpf)
    ELSE <<>>

(***************************************************************************)
(* Sample files                                                            *)
(***************************************************************************)

ImageCell == <<1, 2>>

\* A K2 campaign 5 file that passes every check.
GoodTpf ==
    [ openRaises |-> FALSE, verifyRaises |-> FALSE,
      wcsRaises |-> FALSE, wcsCenter |-> <<1000, 200>>,
      nrows |-> 2,
      cell |-> [c \in {"TIME", "TIMECORR", "CADENCENO"} |-> <<>>] @@
               [c \in {"FLUX", "FLUX_ERR", "RAW_CNTS", "FLUX_BKG", "FLUX_BKG_ERR"}
                   |-> ImageCell],
      QUALITY |-> <<0, THRUSTER_FIRING_FLAG>>,
      FLUX |-> <<<<5, 5>>, <<5, -5>>>>,
      FLUX_BKG |-> <<<<1, 1>>, <<1, 1>>>>,
      APERTURE |-> <<3, 1>>,
      primary |-> [CAMPAIGN |-> Num(5), MISSION |-> Text(<<"K","2">>),
                   CHANNEL |-> Num(10), RA_OBJ |-> Num(1005), DEC_OBJ |-> Num(200),
                   KEPMAG |-> Num(12)],
      table |-> [TDIM5 |-> Text(<<"(","2",",","1",")">>), TELAPSE |-> Num(0),
                 CDPP3_0 |-> Num(50), CDPP6_0 |-> Num(40), CDPP12_0 |-> Num(30)],
      image |-> [NAXIS1 |-> Num(2), NAXIS2 |-> Num(1), CRVAL1P |-> Num(500)] ]

\* FLUX_ERR has another shape than FLUX.
BadShapesTpf == [GoodTpf EXCEPT !.cell["FLUX_ERR"] = <<1, 3>>]

\* An empty aperture and no cadence with QUALITY == 0.
EmptyApertureTpf ==
    [GoodTpf EXCEPT !.APERTURE = <<0, 0>>,
                    !.QUALITY = <<128, THRUSTER_FIRING_FLAG + 1>>]

\* KEPMAG is a string that is no number; the aperture is empty and the
\* table shapes disagree as well.
TextKepmagTpf ==
    [GoodTpf EXCEPT !.primary["KEPMAG"] = Text(<<"N","A">>),
                    !.APERTURE = <<0, 0>>,
                    !.cell["FLUX_ERR"] = <<1, 3>>]

\* fits.open rejects the file.
CorruptTpf == [GoodTpf EXCEPT !.openRaises = TRUE]

\* A custom mask without target of campaign 9a: KEPMAG and the CDPP cards
\* are blank, no thruster firing is flagged.
CustomMaskTpf ==
    [GoodTpf EXCEPT !.primary["CAMPAIGN"] = Num(91),
                    !.primary["KEPMAG"] = Undefined,
                    !.table["CDPP3_0"] = Undefined,
                    !.table["CDPP6_0"] = Undefined,
                    !.table["CDPP12_0"] = Undefined,
                    !.QUALITY = <<0, 1>>]

\* The WCS keywords are invalid, and the quality flags are all set.
BadWcsTpf == [GoodTpf EXCEPT !.wcsRaises = TRUE, !.QUALITY = <<128, 128>>]

\* Everything that can fail with an assertion does.
BrokenTpf ==
    [GoodTpf EXCEPT !.verifyRaises = TRUE,
                    !.cell["FLUX_ERR"] = <<1, 3>>,
                    !.APERTURE = <<0, 0>>,
                    !.table["TDIM5"] = Text(<<"(","1",",","2",")">>),
                    !.QUALITY = <<1, 0>>,
                    !.wcsCenter = <<1000, 900>>,
                    !.FLUX = <<<<5, 5>>, <<-5, -5>>>>,
                    !.table["CDPP6_0"] = Num(20000),
                    !.primary["CAMPAIGN"] = Num(7)]

\* Channel 43 below column 100: negative flux is expected there.
BadColumnTpf ==
    [GoodTpf EXCEPT !.primary["CHANNEL"] = Num(BadColumnChannel),
                    !.image["CRVAL1P"] = Num(50),
                    !.FLUX = <<<<-5, 5>>, <<5, 5>>>>]

TargFits == <<"-","t","a","r","g",".","f","i","t","s">>

TargFitsGz == TargFits \o <<".","g","z">>

\* The files a directory may hold: name and contents.
Pool ==
    << [name |-> <<"a","5">> \o TargFits,         hdul |-> GoodTpf],
       [name |-> <<"b","5">> \o TargFitsGz,       hdul |-> BadShapesTpf],
       [name |-> <<"c","6">> \o TargFits,         hdul |-> EmptyApertureTpf],
       [name |-> <<"e","5">> \o TargFits,         hdul |-> TextKepmagTpf],
       [name |-> <<"f","5">> \o TargFits,         hdul |-> CorruptTpf],
       [name |-> <<"g","5","-","l","l","c",".","f","i","t","s">>, hdul |-> GoodTpf],
       [name |-> <<"h","9","1">> \o TargFits,     hdul |-> CustomMaskTpf],
       [name |-> <<"i","5">> \o TargFitsGz,       hdul |-> BadWcsTpf],
       [name |-> <<"j","5">> \o TargFits,         hdul |-> BrokenTpf],
       [name |-> <<"k","5">> \o TargFitsGz,       hdul |-> BadColumnTpf] >>

(***************************************************************************)
(* The file system: one directory and the files directly under it          *)
(***************************************************************************)

\* The most files the directory holds.
MaxEntries == 2

DirPath == <<"d">>

Sep == <<"/">>

PoolNames == {Pool[i].name : i \in 1..Len(Pool)}

ContentsOf(name) == Pool[CHOOSE i \in 1..Len(Pool) : Pool[i].name = name].hdul

\* The directory listings: up to MaxEntries distinct files, in any order.
Listings ==
    UNION {{l \in [1..n -> PoolNames] : \A i, j \in 1..n : i # j => l[i] # l[j]}
              : n \in 0..MaxEntries}

\* os.path.join(path, name)
PathJoin(path, name) ==
    IF EndsWith(path, Sep) THEN path \o name ELSE path \o Sep \o name

\* os.path.split(path): the part before the last separator, and the rest
PathSplit(path) ==
    LET seps == {i \in 1..Len(path) : path[i] = "/"}
        last == CHOOSE i \in seps : \A j \in seps : j <= i
    IN  IF seps = {} THEN <<(<<>>), path>>
        ELSE <<SubSeq(path, 1, last - 1), SubSeq(path, last + 1, Len(path))>>

\* The paths that exist (click.Path(exists=True)), given the listing.
ExistingPaths(entries) ==
    {DirPath, DirPath \o Sep} \cup {PathJoin(DirPath, entries[i]) : i \in 1..Len(entries)}

IsDirectory(path) == path \in {DirPath, DirPath \o Sep}

\* The file behind a path of the directory
Open(path) == ContentsOf(PathSplit(path)[2])

TargFitsPattern == <<"*">> \o TargFits

TargFitsGzPattern == <<"*">> \o TargFitsGz

\* fnmatch.fnmatch(name, pattern) for a pattern "*<literal>"
Fnmatch(name, pattern) == EndsWith(name, Tail(pattern))

\* glob.glob(pathname): the entries of pathname's directory, in listing
\* order, that match its last component; "*" matches no leading dot; a
\* pathname under something that is no directory matches nothing.
Glob(pathname, entries) ==
    LET dirname == PathSplit(pathname)[1]
        pattern == PathSplit(pathname)[2]
        Matches(name) == Fnmatch(name, pattern) /\ Head(name) # "."
    IN  IF IsDirectory(dirname)
        THEN LET found == SelectSeq(entries, Matches)
             IN  [i \in 1..Len(found) |-> PathJoin(dirname, found[i])]
        ELSE <<>>

(***************************************************************************)
(* QualityIssueLogger                                                      *)
(***************************************************************************)

\* Mutant of FormatIssue: the two arguments of format() swapped.
FormatIssueSwapped(filename, issue) == issue \o <<":", " ">> \o filename

\* '{}: {}'.format(filename, issue)
FormatIssue(filename, issue) == filename \o <<":", " ">> \o issue

\* Mutant of IssuesText: rec.write(issue), without the line break.
RECURSIVE IssuesTextUnbroken(_)
IssuesTextUnbroken(lines) ==
    IF lines = <<>> THEN <<>>
    ELSE Head(lines) \o IssuesTextUnbroken(Tail(lines))

\* The text record_issues writes to issues.txt (opened 'w+': truncated):
\* "{}\n".format(issue) for each issue
RECURSIVE IssuesText(_)
IssuesText(lines) ==
    IF lines = <<>> THEN <<>>
    ELSE Head(lines) \o <<"\n">> \o IssuesText(Tail(lines))

\* Mutant of SummaryLine: the two arguments of format() swapped.
SummaryLineSwapped(n_issues, n_files) ==
    [kind |-> "summary", issues |-> n_files, files |-> n_issues]

\* 'Found {} issues ({} files checked).'
SummaryLine(n_issues, n_files) ==
    [kind |-> "summary", issues |-> n_issues, files |-> n_files]

(***************************************************************************)
(* State                                                                   *)
(***************************************************************************)

VARIABLES
    listing,            \* the files of the directory, in os.listdir order
    issues_txt,         \* the text of issues.txt
    stdout,             \* the lines printed so far
    issues,             \* QualityIssueLogger.issues
    tpf_files_checked,  \* QualityIssueLogger.tpf_files_checked
    pc,                 \* where k2qc_main is
    path,               \* check_path's argument: a path that exists
    record_issues,      \* check_path's argument
    filenames,          \* check_path's list of files
    next_file,          \* position of the for loop over filenames
    tpf_filename,       \* validator.tpf_filename
    tpf,                \* validator.tpf: the handle fits.open returned, 0 before
    methods,            \* validate's verification_methods
    next_method,        \* position of the for loop over them
    open_files,         \* the file handles that are open: call numbers
    raised,             \* the exception that ended the run, or "none"
    calls,              \* history: one record per validate call
    reported,           \* history: the arguments of every report_issue call
    input,              \* the argument of the function under test
    output              \* its result

vars == <<listing, issues_txt, stdout, issues, tpf_files_checked, pc, path,
          record_issues, filenames, next_file, tpf_filename, tpf, methods,
          next_method, open_files, raised, calls, reported, input, output>>

logger == <<issues, tpf_files_checked>>

batch == <<path, record_issues, filenames, next_file>>

validator == <<tpf_filename, tpf, methods, next_method>>

unit == <<input, output>>

OldIssuesText == <<"o","l","d","\n">>

\* A fresh process: QualityIssueLogger.__init__, no validator yet.
Fresh ==
    /\ issues_txt = OldIssuesText
    /\ stdout = <<>>
    /\ issues = <<>>
    /\ tpf_files_checked = 0
    /\ path = <<>>
    /\ record_issues = TRUE
    /\ filenames = <<>>
    /\ next_file = 1
    /\ tpf_filename = <<>>
    /\ tpf = 0
    /\ methods = <<>>
    /\ next_method = 1
    /\ open_files = {}
    /\ raised = "none"
    /\ calls = <<>>
    /\ reported = <<>>

Init ==
    /\ Fresh
    /\ listing \in Listings
    /\ pc = "main"
    /\ input = "none"
    /\ output = "none"

(***************************************************************************)
(* KeplerQualityPolice.check_path and TargetPixelFileValidator.validate    *)
(***************************************************************************)

\* check_path up to its loop: the two globs.
CheckPath(p, record) ==
    /\ pc = "main"
    /\ path' = p
    /\ filenames' = Glob(PathJoin(p, TargFitsPattern), listing)
                       \o Glob(PathJoin(p, TargFitsGzPattern), listing)
    /\ record_issues' = record
    /\ next_file' = 1
    /\ pc' = "loop"
    /\ UNCHANGED <<listing, issues_txt, stdout, logger, validator, open_files,
                   raised, calls, reported, unit>>

\* validate up to its loop: fits.open and the discovery of the checks.
ValidateOpen ==
    /\ pc = "loop"
    /\ next_file <= Len(filenames)
    /\ LET filename == filenames[next_file]
           hdul == Open(filename)
           call == [filename |-> filename, issues_before |-> Len(issues),
                    opened |-> ~hdul.openRaises, executed |-> <<>>,
                    status |-> IF hdul.openRaises THEN "raised" ELSE "running"]
       IN  /\ tpf_filename' = filename
           /\ calls' = Append(calls, call)
           /\ IF hdul.openRaises
              THEN /\ pc' = "aborted"
                   /\ raised' = "OSError"
                   /\ UNCHANGED <<tpf, methods, next_method, open_files>>
              ELSE /\ tpf' = Len(calls) + 1
                   /\ open_files' = open_files \cup {Len(calls) + 1}
                   /\ methods' = verification_methods
                   /\ next_method' = 1
                   /\ pc' = "checks"
                   /\ UNCHANGED raised
    /\ UNCHANGED <<listing, issues_txt, stdout, logger, batch, reported, unit>>

\* QualityIssueLogger.report_issue
ReportIssue(filename, issue, printed) ==
    /\ stdout' = stdout \o printed \o <<[kind |-> "issue", text |-> FormatIssue(filename, issue)]>>
    /\ issues' = Append(issues, FormatIssue(filename, issue))
    /\ reported' = Append(reported, <<filename, issue>>)

\* Mutant of Caught: except Exception.
CaughtAnyException ==
    {"AssertionError", "KeyError", "TypeError", "ValueError", "IndexError",
     "InvalidTransformError"}

\* The exceptions validate's except clause catches.
Caught == {"AssertionError"}

\* One turn of validate's loop: the call of a check and the except clause.
RunVerification ==
    /\ pc = "checks"
    /\ next_method <= Len(methods)
    /\ LET verification == methods[next_method]
           hdul == Open(tpf_filename)     \* what self.tpf reads
           result == Invoke(verification, hdul, tpf_filename)
           printed == Printed(verification, hdul)
           n == Len(calls)
       IN  /\ calls' = [calls EXCEPT
                          ![n].executed = Append(@, <<verification, result>>),
                          ![n].status = IF result \in Caught \cup {"ok"}
                                        THEN @ ELSE "raised"]
           /\ IF result = "ok"
              THEN /\ stdout' = stdout \o printed
                   /\ next_method' = next_method + 1
                   /\ UNCHANGED <<issues, reported, pc, raised>>
              ELSE IF result \in Caught
              THEN /\ ReportIssue(tpf_filename, verification, printed)
                   /\ next_method' = next_method + 1
                   /\ UNCHANGED <<pc, raised>>
              ELSE /\ stdout' = stdout \o printed
                   /\ pc' = "aborted"
                   /\ raised' = result
                   /\ UNCHANGED <<issues, reported, next_method>>
    /\ UNCHANGED <<listing, issues_txt, tpf_files_checked, batch, tpf_filename,
                   tpf, methods, open_files, unit>>

\* Mutant of ValidateClose: the file is counted only when it has no issue.
ValidateCloseCountsCleanFiles ==
    /\ pc = "checks"
    /\ next_method > Len(methods)
    /\ open_files' = open_files \ {tpf}
    /\ tpf_files_checked' = IF Len(issues) = calls[Len(calls)].issues_before
                            THEN tpf_files_checked + 1
                            ELSE tpf_files_checked
    /\ calls' = [calls EXCEPT ![Len(calls)].status = "returned"]
    /\ next_file' = next_file + 1
    /\ pc' = "loop"
    /\ UNCHANGED <<listing, issues_txt, stdout, issues, path, record_issues,
                   filenames, validator, raised, reported, unit>>

\* The end of validate: close the file, count it.
ValidateClose ==
    /\ pc = "checks"
    /\ next_method > Len(methods)
    /\ open_files' = open_files \ {tpf}
    /\ tpf_files_checked' = tpf_files_checked + 1
    /\ calls' = [calls EXCEPT ![Len(calls)].status = "returned"]
    /\ next_file' = next_file + 1
    /\ pc' = "loop"
    /\ UNCHANGED <<listing, issues_txt, stdout, issues, path, record_issues,
                   filenames, validator, raised, reported, unit>>

\* QualityIssueLogger.print_summary, after check_path's loop
PrintSummary ==
    /\ pc = "loop"
    /\ next_file > Len(filenames)
    /\ stdout' = Append(stdout, SummaryLine(Len(issues), tpf_files_checked))
    /\ pc' = IF record_issues THEN "record" ELSE "done"
    /\ UNCHANGED <<listing, issues_txt, logger, batch, validator, open_files,
                   raised, calls, reported, unit>>

\* QualityIssueLogger.record_issues
RecordIssues ==
    /\ pc = "record"
    /\ issues_txt' = IssuesText(issues)
    /\ pc' = "done"
    /\ UNCHANGED <<listing, stdout, logger, batch, validator, open_files,
                   raised, calls, reported, unit>>

\* k2qc_main calls check_path(path); a caller may pass record_issues.
Main == \E p \in ExistingPaths(listing), record \in BOOLEAN : CheckPath(p, record)

Next ==
    \/ Main
    \/ ValidateOpen
    \/ RunVerification
    \/ ValidateClose
    \/ PrintSummary
    \/ RecordIssues

Spec == Init /\ [][Next]_vars

(***************************************************************************)
(* QualityIssueLogger on its own: any calls of report_issue and            *)
(* record_issues                                                           *)
(***************************************************************************)

\* The most report_issue calls of a run of LogSpec.
MaxReports == 3

\* File names, one of them holding the separator of the issue line.
LogFilenames ==
    { PathJoin(DirPath, Pool[1].name),
      <<"x", ":", " ", "y">> \o Sep \o Pool[2].name }

LogIssues == {verify_cdpp_name, verify_aperture_img_name}

LogInit ==
    /\ Fresh
    /\ listing = <<>>
    /\ pc = "log"
    /\ input = "none"
    /\ output = "none"

LogReport ==
    /\ pc \in {"log", "recorded"}
    /\ Len(reported) < MaxReports
    /\ \E filename \in LogFilenames, issue \in LogIssues :
          ReportIssue(filename, issue, <<>>)
    /\ pc' = "log"
    /\ UNCHANGED <<listing, issues_txt, tpf_files_checked, batch, validator,
                   open_files, raised, calls, unit>>

LogRecord ==
    /\ pc \in {"log", "recorded"}
    /\ issues_txt' = IssuesText(issues)
    /\ pc' = "recorded"
    /\ UNCHANGED <<listing, stdout, logger, batch, validator, open_files,
                   raised, calls, reported, unit>>

LogNext == LogReport \/ LogRecord

LogSpec == LogInit /\ [][LogNext]_vars

(***************************************************************************)
(* verify_cdpp on its own, over the header cards it reads                  *)
(***************************************************************************)

NotANumber == <<"N", "A">>

CdppCards == {Num(0), Num(50), Num(20000), Undefined, Text(NotANumber), Absent}

KepmagCards == {Num(12), Num(16), Undefined, Text(NotANumber), Absent}

WithCards(cards) ==
    [GoodTpf EXCEPT !.primary["KEPMAG"] = cards.KEPMAG,
                    !.table["CDPP3_0"] = cards.CDPP3_0,
                    !.table["CDPP6_0"] = cards.CDPP6_0,
                    !.table["CDPP12_0"] = cards.CDPP12_0]

CdppInit ==
    /\ Fresh
    /\ listing = <<>>
    /\ pc = "cdpp"
    /\ input \in [KEPMAG : KepmagCards, CDPP3_0 : CdppCards,
                  CDPP6_0 : CdppCards, CDPP12_0 : CdppCards]
    /\ output = "none"

CdppCheck ==
    /\ pc = "cdpp"
    /\ output = "none"
    /\ output' = verify_cdpp(WithCards(input))
    /\ UNCHANGED <<listing, issues_txt, stdout, logger, pc, batch, validator,
                   open_files, raised, calls, reported, input>>

CdppNext == CdppCheck

CdppSpec == CdppInit /\ [][CdppNext]_vars

(***************************************************************************)
(* k2qc/flags.py                                                           *)
(***************************************************************************)

\* The dict, in the order of its keys.
KEPLER_QUALITY_FLAGS ==
    <<
       [key |-> <<"1">>,                             label |-> "Attitude tweak"],
       [key |-> <<"2">>,                             label |-> "Safe mode"],
       [key |-> <<"4">>,                             label |-> "Coarse point"],
       [key |-> <<"8">>,                             label |-> "Earth point"],
       [key |-> <<"1","6">>,                         label |-> "Zero crossing"],
       [key |-> <<"3","2">>,                         label |-> "Desaturation event"],
       [key |-> <<"6","4">>,                         label |-> "Argabrightening"],
       [key |-> <<"1","2","8">>,                     label |-> "Cosmic ray"],
       [key |-> <<"2","5","6">>,                     label |-> "Manual exclude"],
       [key |-> <<"1","0","2","4">>,                 label |-> "Sudden sensitivity dropout"],
       [key |-> <<"2","0","4","8">>,                 label |-> "Impulsive outlier"],
       [key |-> <<"4","0","9","6">>,                 label |-> "Argabrightening"],
       [key |-> <<"8","1","9","2">>,                 label |-> "Cosmic ray"],
       [key |-> <<"1","6","3","8","4">>,             label |-> "Detector anomaly"],
       [key |-> <<"3","2","7","6","8">>,             label |-> "No fine point"],
       [key |-> <<"6","5","5","3","6">>,             label |-> "No data"],
       [key |-> <<"1","3","1","0","7","2">>,         label |-> "Rolling band"],
       [key |-> <<"2","6","2","1","4","4">>,         label |-> "Rolling band"],
       [key |-> <<"5","2","4","2","8","8">>,         label |-> "Possible thruster firing"],
       [key |-> <<"1","0","4","8","5","7","6">>,     label |-> "Thruster firing"]
    >>

\* flag in KEPLER_QUALITY_FLAGS / KEPLER_QUALITY_FLAGS[flag]
HasFlag(key) == \E i \in 1..Len(KEPLER_QUALITY_FLAGS) : KEPLER_QUALITY_FLAGS[i].key = key

FlagLabel(key) ==
    KEPLER_QUALITY_FLAGS[CHOOSE i \in 1..Len(KEPLER_QUALITY_FLAGS) :
                            KEPLER_QUALITY_FLAGS[i].key = key].label

\* 2**bit
RECURSIVE Pow2(_)
Pow2(bit) == IF bit = 0 THEN 1 ELSE 2 * Pow2(bit - 1)

\* int(np.log2(value))
RECURSIVE Log2(_)
Log2(value) == IF value < 2 THEN 0 ELSE 1 + Log2(value \div 2)

\* The indices of the cadences whose QUALITY has the flag set
FlagMask(quality, flag) == {i \in 1..Len(quality) : BitAnd(quality[i], flag) > 0}

\* The rows of get_quality_flags_summary's table
get_quality_flags_summary(quality) ==
    [i \in 1..Len(KEPLER_QUALITY_FLAGS) |->
        LET flag == KEPLER_QUALITY_FLAGS[i].key
        IN  [flag |-> KEPLER_QUALITY_FLAGS[i].label,
             bit |-> Log2(StrToInt(flag)),
             value |-> StrToInt(flag),
             count |-> Cardinality(FlagMask(quality, StrToInt(flag)))]]

\* range(len(KEPLER_QUALITY_FLAGS))
PlotBits == [i \in 1..Len(KEPLER_QUALITY_FLAGS) |-> i - 1]

\* plot_quality_flags: the scatter calls, each the cadences drawn at a bit,
\* and the tick labels, one per bit of PlotBits
plot_quality_flags(quality, cadenceno) ==
    LET Known(bit) == HasFlag(IntToStr(Pow2(bit)))
        drawn == SelectSeq(PlotBits, Known)
    IN  [scatter |-> [k \in 1..Len(drawn) |->
                        [bit |-> drawn[k],
                         cadences |-> {cadenceno[i] : i \in FlagMask(quality, Pow2(drawn[k]))}]],
         yticks |-> PlotBits,
         labels |-> [k \in 1..Len(PlotBits) |->
                        IF Known(PlotBits[k]) THEN FlagLabel(IntToStr(Pow2(PlotBits[k])))
                        ELSE ""]]

\* The most cadences of a file given to k2qc-flags.
MaxCadences == 2

QualitySamples == {0, 1, 128, 512, 1048576, 1048577}

FlagsInit ==
    /\ Fresh
    /\ listing = <<>>
    /\ pc = "flags"
    /\ input \in UNION {[1..n -> QualitySamples] : n \in 1..MaxCadences}
    /\ output = [summary |-> "none", plot |-> "none"]

\* The CADENCENO column: consecutive cadence numbers
CadenceNo(quality) == [i \in 1..Len(quality) |-> 100 + i]

\* k2qc_flags_main: the summary table
FlagsSummary ==
    /\ pc = "flags"
    /\ output' = [output EXCEPT !.summary = get_quality_flags_summary(input)]
    /\ pc' = "summarised"
    /\ UNCHANGED <<listing, issues_txt, stdout, logger, batch, validator,
                   open_files, raised, calls, reported, input>>

\* k2qc_flags_main --plot
FlagsPlot ==
    /\ pc = "summarised"
    /\ output' = [output EXCEPT !.plot = plot_quality_flags(input, CadenceNo(input))]
    /\ pc' = "plotted"
    /\ UNCHANGED <<listing, issues_txt, stdout, logger, batch, validator,
                   open_files, raised, calls, reported, input>>

FlagsNext == FlagsSummary \/ FlagsPlot

FlagsSpec == FlagsInit /\ [][FlagsNext]_vars

(***************************************************************************)
(* Properties                                                              *)
(***************************************************************************)

VerifyMethodSet == {DeclaredVerifyMethods[i] : i \in 1..Len(DeclaredVerifyMethods)}

Ended(call) == call.status \in {"returned", "raised"}

Returned == {n \in 1..Len(calls) : calls[n].status = "returned"}

\* The names of the checks a call has executed, in execution order
ExecutedNames(call) == [i \in 1..Len(call.executed) |-> call.executed[i][1]]

\* The checks that failed with an assertion while the call executed them
FailedIn(call) ==
    {call.executed[i][1] : i \in {j \in 1..Len(call.executed) :
                                     call.executed[j][2] = "AssertionError"}}

\* The checks whose assertion fails on the file at filename
FailingChecks(filename) ==
    {m \in VerifyMethodSet : Invoke(m, Open(filename), filename) = "AssertionError"}

\* The issues the n-th validate call has appended
IssuesOf(n) ==
    SubSeq(issues, calls[n].issues_before + 1,
           IF n < Len(calls) THEN calls[n + 1].issues_before ELSE Len(issues))

IssueLine(filename, check_name) == filename \o <<":", " ">> \o check_name

SummaryLines == {i \in 1..Len(stdout) : stdout[i].kind = "summary"}

C2_CountsEveryFilePassed ==
    pc # "checks" => tpf_files_checked = Len(calls)

\* C2 amended: files_checked equals the number of validate() calls that
\* have returned, whatever number of checks failed in them; a call that
\* propagates an exception (from fits.open or from a check) is not counted.
C2_CountsEveryReturnedCall ==
    /\ tpf_files_checked = Cardinality(Returned)
    /\ pc # "checks" =>
          Len(calls) - tpf_files_checked = (IF pc = "aborted" THEN 1 ELSE 0)

C2_Witness ==
    /\ pc = "done"
    /\ tpf_files_checked = 2
    /\ \E n \in Returned : Len(IssuesOf(n)) > 0
    /\ \E n \in Returned : Len(IssuesOf(n)) = 0

\* C3: no file handle opened by validate() is still open after that call
\* has ended, whether it returned or propagated an exception; and a call
\* opens at most the one handle of its file.
C3_NoHandleOutlivesItsCall ==
    /\ open_files \subseteq 1..Len(calls)
    /\ \A n \in 1..Len(calls) : Ended(calls[n]) => n \notin open_files

\* C4: a check that fails with AssertionError is reported and the checks
\* after it still run (the call does not end before all of them ran, unless
\* a later check raises another exception); a check that raises any other
\* exception is not reported, is the last check the call executes, and its
\* exception leaves validate().
C4_OnlyAssertionsAreIsolated ==
    \A n \in 1..Len(calls) :
        LET call == calls[n]
            done == Len(call.executed)
            Result(i) == call.executed[i][2]
            Other(i) == Result(i) \notin {"ok", "AssertionError"}
        IN  /\ \A i \in 1..done :
                  /\ Result(i) = "AssertionError" <=>
                        \E k \in 1..Len(IssuesOf(n)) :
                            IssuesOf(n)[k] = IssueLine(call.filename, call.executed[i][1])
                  /\ Other(i) => /\ i = done
                                 /\ call.status = "raised"
                                 /\ pc = "aborted"
                                 /\ raised = Result(i)
            /\ call.status = "returned" => done = Len(DeclaredVerifyMethods)
            /\ (call.status = "raised" /\ call.opened) => done > 0 /\ Other(done)
            /\ call.status = "running" => n = Len(calls) /\ pc = "checks"

\* An assertion failure was reported, then another exception ended the call
\* before a check that would have failed was reached.
C4_Witness ==
    /\ pc = "aborted"
    /\ LET call == calls[Len(calls)]
       IN  /\ call.opened
           /\ FailedIn(call) # {}
           /\ FailingChecks(call.filename) \ FailedIn(call) # {}

\* C5 as stated: the checks run in the order the class defines them.
C5_DeclarationOrder ==
    \A n \in 1..Len(calls) :
        ExecutedNames(calls[n]) =
            SubSeq(DeclaredVerifyMethods, 1, Len(calls[n].executed))

SortedNameOrder ==
    << verify_aperture_img_name, verify_aperture_img_shape_name,
       verify_campaign_number_name, verify_cdpp_name, verify_fits_standard_name,
       verify_positive_flux_name, verify_quality_flags_name,
       verify_table_shapes_name, verify_thruster_flags_name,
       verify_wcs_coordinates_name, verify_wcs_keywords_name >>

\* C5 amended: every validate call discovers the same eleven verify
\* methods and runs them in the sorted order of their names (aperture_img,
\* aperture_img_shape, campaign_number, cdpp, fits_standard, positive_flux,
\* quality_flags, table_shapes, thruster_flags, wcs_coordinates,
\* wcs_keywords), the same for every file; the Issues of one file appear in
\* the log in that order.
C5_SortedOrder ==
    /\ pc = "checks" => methods = SortedNameOrder
    /\ {SortedNameOrder[i] : i \in 1..Len(SortedNameOrder)} = VerifyMethodSet
    /\ \A n \in 1..Len(calls) :
          LET call == calls[n]
              InLog(m) == m \in FailedIn(call)
              failed == SelectSeq(SortedNameOrder, InLog)
          IN  /\ ExecutedNames(call) = SubSeq(SortedNameOrder, 1, Len(call.executed))
              /\ IssuesOf(n) = [k \in 1..Len(failed) |-> IssueLine(call.filename, failed[k])]

\* Two files were validated and both have issues in the log.
C5_Witness ==
    /\ pc = "done"
    /\ Len(calls) = 2
    /\ \A n \in 1..2 : Len(IssuesOf(n)) >= 2

\* The files C6 says check_path validates.
ResolvedInput ==
    LET Targ(name) == EndsWith(name, TargFits) \/ EndsWith(name, TargFitsGz)
    IN  IF IsDirectory(path)
        THEN {PathJoin(path, listing[i]) : i \in {j \in 1..Len(listing) : Targ(listing[j])}}
        ELSE IF Targ(path) THEN {path} ELSE {}

\* C6: when check_path's loop has ended, validate has been called exactly
\* once on each file of the resolved input set and on no other file: the
\* path itself when it is a file named *-targ.fits or *-targ.fits.gz, the
\* files so named directly under it when it is a directory.
C6_ValidatesTheResolvedInput ==
    pc \in {"record", "done"} =>
        /\ {calls[n].filename : n \in 1..Len(calls)} = ResolvedInput
        /\ Len(calls) = Cardinality(ResolvedInput)

\* Neither a number nor missing: a blank card, or a string that is no number
NonNumeric(card) ==
    \/ card.kind = "undef"
    \/ card.kind = "text" /\ ~IsNumericText(card.val)

\* C7: the cdpp check passes when KEPMAG is unset or non-numeric and the
\* three CDPP cards are unset; and non-numeric KEPMAG or CDPP values make it
\* pass, rather than fail or raise, when the cards that are numbers meet
\* the check's bounds (and no card is missing).
C7_NonNumericCardsPass ==
    LET cdpp == {input.CDPP3_0, input.CDPP6_0, input.CDPP12_0}
        numeric == {c \in cdpp : c.kind = "num"}
        bright == input.KEPMAG.kind = "num" /\ input.KEPMAG.val < BrightKepmag
        WithinBounds == \A c \in numeric :
                            c.val > 0 /\ (bright => c.val < BrightCdppLimit)
    IN  (pc = "cdpp" /\ output # "none") =>
           /\ (NonNumeric(input.KEPMAG) /\ cdpp = {Undefined}) => output = "ok"
           /\ ( /\ \A c \in cdpp \cup {input.KEPMAG} : c.kind # "absent"
                /\ \E c \in cdpp \cup {input.KEPMAG} : NonNumeric(c)
                /\ WithinBounds ) => output = "ok"

\* The lines of a text: what each line break ends, and what follows the
\* last one if anything does
SplitLines(text) ==
    LET breaks == {i \in 1..Len(text) : text[i] = "\n"} \cup
                  (IF text # <<>> /\ text[Len(text)] # "\n" THEN {Len(text) + 1} ELSE {})
        Break(k) == CHOOSE i \in breaks : Cardinality({j \in breaks : j <= i}) = k
    IN  [k \in 1..Cardinality(breaks) |->
            SubSeq(text, (IF k = 1 THEN 0 ELSE Break(k - 1)) + 1, Break(k) - 1)]

\* A line "<filename>: <check_name>" split at its last ": "
SplitIssue(line) ==
    LET seps == {i \in 1..(Len(line) - 1) : line[i] = ":" /\ line[i + 1] = " "}
        last == CHOOSE i \in seps : \A j \in seps : j <= i
    IN  IF seps = {} THEN <<line, <<>>>>
        ELSE <<SubSeq(line, 1, last - 1), SubSeq(line, last + 2, Len(line))>>

ParseIssues(text) ==
    LET lines == SplitLines(text)
    IN  [i \in 1..Len(lines) |-> SplitIssue(lines[i])]

\* C8: after any report_issue calls, what record_issues has written is one
\* line "<filename>: <check_name>" per reported Issue and nothing else
\* (the old contents are gone); read back line by line, each line split at
\* its last ": ", it is the sequence of reported (filename, check_name)
\* pairs in report order, repeats kept.
C8_RecordedIssuesReadBack ==
    pc = "recorded" =>
        /\ Len(SplitLines(issues_txt)) = Len(reported)
        /\ \A i \in 1..Len(reported) :
              SplitLines(issues_txt)[i] = IssueLine(reported[i][1], reported[i][2])
        /\ ParseIssues(issues_txt) = reported

\* Three issues were recorded, the same one twice, one for a file whose
\* name holds ": ".
C8_Witness ==
    /\ pc = "recorded"
    /\ Len(reported) = 3
    /\ reported[1] = reported[3]
    /\ reported[2] # reported[1]
    /\ \E i \in 1..3 : Len(SplitLines(issues_txt)[i]) > 0
                          /\ reported[i][1][2] = ":"

\* C9 as stated: every run of check_path ends with the summary line printed.
C9_EveryRunPrintsTheSummary ==
    pc \in {"done", "aborted"} => SummaryLines # {}

\* The guards of Next, written out: the run can take a step.
CanStep ==
    \/ pc = "main" /\ ExistingPaths(listing) # {}
    \/ pc = "loop" /\ next_file \in 1..(Len(filenames) + 1)
    \/ pc = "checks" /\ next_method \in 1..(Len(methods) + 1)
    \/ pc = "record"

\* C9 amended: a run of check_path does not stop before it is done or
\* aborted by an exception; a run in which every validate call returns prints the
\* summary line last, its two counts the number of Issues reported and the
\* number of files checked during the run, and writes the issue log after
\* it when record_issues is true; a run in which a validate call propagates
\* an exception ends without the summary line and without writing the
\* issue log.
C9_RunEndsWithSummaryUnlessAborted ==
    /\ pc \notin {"done", "aborted"} => CanStep
    /\ pc \in {"record", "done"} =>
          /\ SummaryLines = {Len(stdout)}
          /\ stdout[Len(stdout)] = [kind |-> "summary", issues |-> Len(reported),
                                    files |-> Cardinality(Returned)]
          /\ Cardinality(Returned) = Len(filenames)
    /\ pc = "record" => issues_txt = OldIssuesText
    /\ pc = "done" =>
          issues_txt = (IF record_issues THEN IssuesText(issues) ELSE OldIssuesText)
    /\ pc = "aborted" => SummaryLines = {} /\ issues_txt = OldIssuesText

C9_Witness ==
    /\ pc = "done"
    /\ record_issues
    /\ Len(reported) >= 2
    /\ Cardinality(Returned) = 2

\* C10: the plot covers every flag of KEPLER_QUALITY_FLAGS: the bit of each
\* flag the summary counts is drawn with the cadences on which the flag is
\* set, and carries the flag's label.
C10_PlotCoversEveryFlag ==
    pc = "plotted" =>
        \A i \in 1..Len(KEPLER_QUALITY_FLAGS) :
            LET row == output.summary[i]
                plot == output.plot
            IN  /\ \E k \in 1..Len(plot.scatter) :
                      /\ plot.scatter[k].bit = row.bit
                      /\ Cardinality(plot.scatter[k].cadences) = row.count
                /\ \E k \in 1..Len(plot.yticks) :
                      plot.yticks[k] = row.bit /\ plot.labels[k] = row.flag

=============================================================================
